---- MODULE Spec2Model ----
(***************************************************************************)
(* Model of aoc/day16.py: the bit-stream packet parser (_Parser), the      *)
(* packet tree (Packet), the expression evaluator (Expression) and main(). *)
(* The parser is recursive; its call stack is the variable `stack`, one    *)
(* frame per live _Parser instance, and every action is one step of the    *)
(* innermost frame.  Bits are the numbers 0 and 1 (the characters "0" and  *)
(* "1" of the source).                                                     *)
(*                                                                         *)
(* Three specifications share the module: Spec is main() of day16 on one   *)
(* input; Consumers is the two traversals of a parsed tree (version sum    *)
(* and evaluation) run by several threads; Queue is the PriorityQueue of   *)
(* aoc/day15.py under add, update and pop.  Each leaves the variables of   *)
(* the others as they are.                                                 *)
(***************************************************************************)
EXTENDS Integers, Sequences, FiniteSets, TLC

VARIABLES
    bits,       \* the items the iterator `src` yields, in order
    pos,        \* how many items have been drawn from `src` (shared by all parsers)
    stack,      \* live _Parser.parse() calls, outermost first
    phase,      \* where main() is: parsing, parsed, summed, done, raised
    packet,     \* main's `packet`: None or <<root Packet>>
    error,      \* the exception that left main(), "" when none
    printed,    \* what main() printed, in order
    lastRead,   \* history: the last _read call (its n, the offset before, its outcome)
    last,       \* history: the last parse() that returned (its frame, its Packet, the offset after)
    threads,    \* Consumers: what each thread is doing on the tree in `packet`
    heap,       \* Queue: PriorityQueue._heap, a list of _QElem
    elements,   \* Queue: PriorityQueue._elements, item -> the _QElem last made for it
    queued,     \* Queue, history: item -> the priority last given to it, for the items not yet popped
    popped      \* Queue, history: the last pop (what it returned or raised)

parser == <<bits, pos, stack, phase, packet, error, printed, lastRead, last>>
consumers == <<threads>>
queue == <<heap, elements, queued, popped>>

vars == <<bits, pos, stack, phase, packet, error, printed, lastRead, last,
          threads, heap, elements, queued, popped>>

-----------------------------------------------------------------------------
(* Program constants *)

VERSION_LEN == 3
TYPE_ID_LEN == 3
NIBBLE_HEAD_LEN == 1
NIBBLE_LEN == 4
OP_HEAD_LEN == 1
OP_BIT_COUNT_LEN == 15
OP_SUB_COUNT_LEN == 11

BIT_COUNT == 0
SUB_COUNT == 1

LITERAL == "LITERAL"

\* Optional[...]: None is the empty sequence, a present value v is <<v>>.
None == <<>>
Some(v) == <<v>>

\* The exceptions of the program.
EndOfString == "RuntimeError: Unexpected end of string"
FramingMismatch == "RuntimeError: Expected to read bit_count bits"
NotAnOperator == "ValueError: Can't get an operator for a non-operator type"
ArityError == "TypeError: wrong number of arguments"
EmptyArgument == "ValueError: arg is an empty sequence"

-----------------------------------------------------------------------------
(* Conversions *)

\* int(s, 2) for a string of binary digits.
RECURSIVE BinToInt(_)
BinToInt(chars) ==
    IF chars = <<>> THEN 0
    ELSE 2 * BinToInt(SubSeq(chars, 1, Len(chars) - 1)) + chars[Len(chars)]

\* int(char, 16) for one hexadecimal digit.
HexDigit(char) ==
    CASE char = "0" -> 0  [] char = "1" -> 1  [] char = "2" -> 2  [] char = "3" -> 3
      [] char = "4" -> 4  [] char = "5" -> 5  [] char = "6" -> 6  [] char = "7" -> 7
      [] char = "8" -> 8  [] char = "9" -> 9  [] char = "A" -> 10 [] char = "B" -> 11
      [] char = "C" -> 12 [] char = "D" -> 13 [] char = "E" -> 14 [] char = "F" -> 15

\* Format04b as it would be with the least significant digit first.
Format04bReversed(v) == << v % 2, (v \div 2) % 2, (v \div 4) % 2, (v \div 8) % 2 >>

\* f"{v:04b}": the four binary digits of v, most significant first.
Format04b(v) == << (v \div 8) % 2, (v \div 4) % 2, (v \div 2) % 2, v % 2 >>

\* _hextobin: the binary digits of a hex string, four per character.
RECURSIVE hextobin(_)
hextobin(hexstr) ==
    IF hexstr = <<>> THEN <<>>
    ELSE Format04b(HexDigit(Head(hexstr))) \o hextobin(Tail(hexstr))

\* PacketType as it would be with the values of GT and LT exchanged.
PacketTypeExchanged(n) ==
    CASE n = 0 -> "SUM"
      [] n = 1 -> "PRODUCT"
      [] n = 2 -> "MINIMUM"
      [] n = 3 -> "MAXIMUM"
      [] n = 4 -> "LITERAL"
      [] n = 5 -> "LT"
      [] n = 6 -> "GT"
      [] n = 7 -> "EQ"

\* PacketType(n): the enumeration member with value n.
PacketType(n) ==
    CASE n = 0 -> "SUM"
      [] n = 1 -> "PRODUCT"
      [] n = 2 -> "MINIMUM"
      [] n = 3 -> "MAXIMUM"
      [] n = 4 -> "LITERAL"
      [] n = 5 -> "GT"
      [] n = 6 -> "LT"
      [] n = 7 -> "EQ"

\* PacketType.is_operator
is_operator(type) == type # LITERAL

-----------------------------------------------------------------------------
(* Packet *)

Packet(version, type, value, sub_packets, length) ==
    [version |-> version, type |-> type, value |-> value,
     sub_packets |-> sub_packets, length |-> length]

\* descendants as it would be if it went no deeper than the sub-packets.
descendantsShallow(p) == <<p>> \o p.sub_packets

\* Packet.descendants: this packet, then the descendants of each sub-packet in order.
RECURSIVE descendants(_)
RECURSIVE descendantsOfAll(_)
descendants(p) == <<p>> \o descendantsOfAll(p.sub_packets)
descendantsOfAll(ps) ==
    IF ps = <<>> THEN <<>>
    ELSE descendants(Head(ps)) \o descendantsOfAll(Tail(ps))

\* sum(p.length for p in ps)
RECURSIVE SumLength(_)
SumLength(ps) == IF ps = <<>> THEN 0 ELSE Head(ps).length + SumLength(Tail(ps))

\* sum(p.version for p in ps)
RECURSIVE SumVersion(_)
SumVersion(ps) == IF ps = <<>> THEN 0 ELSE Head(ps).version + SumVersion(Tail(ps))

-----------------------------------------------------------------------------
(* _Parser *)

\* _read's loop: draw n items one at a time; StopIteration ends it with an error
\* and leaves the iterator exhausted.
RECURSIVE ReadLoop(_, _, _, _)
ReadLoop(src, p, n, chars) ==
    IF n = 0 THEN [ok |-> TRUE, chars |-> chars, pos |-> p]
    ELSE IF p >= Len(src) THEN [ok |-> FALSE, chars |-> <<>>, pos |-> Len(src)]
    ELSE ReadLoop(src, p + 1, n - 1, Append(chars, src[p + 1]))

\* Read as it would be if a read that fails drew nothing.
ReadAtomic(src, p, bits_read, n) ==
    LET r == ReadLoop(src, p, n, <<>>) IN
    [ok |-> r.ok, chars |-> r.chars, pos |-> IF r.ok THEN r.pos ELSE p,
     bits_read |-> IF r.ok THEN bits_read + n ELSE bits_read,
     val |-> None]

\* Read as it would be if it looked at the next n items without drawing them.
ReadAhead(src, p, bits_read, n) ==
    LET r == ReadLoop(src, p, n, <<>>) IN
    [ok |-> r.ok, chars |-> r.chars, pos |-> IF r.ok THEN p ELSE r.pos,
     bits_read |-> IF r.ok THEN bits_read + n ELSE bits_read,
     val |-> None]

\* Read as it would be if a short source gave a short result (as slicing does).
ReadAvailable(src, p, bits_read, n) ==
    LET m == IF Len(src) - p < n THEN Len(src) - p ELSE n IN
    [ok |-> TRUE, chars |-> SubSeq(src, p + 1, p + m), pos |-> p + m,
     bits_read |-> bits_read + n, val |-> None]

\* _read(n) on a parser whose counter is bits_read, with `src` at offset p:
\* the characters read, the new offset, and the new counter (advanced by n only
\* when all n were read).
Read(src, p, bits_read, n) ==
    LET r == ReadLoop(src, p, n, <<>>) IN
    [ok |-> r.ok, chars |-> r.chars, pos |-> r.pos,
     bits_read |-> IF r.ok THEN bits_read + n ELSE bits_read,
     val |-> None]

\* _read_int(n): int(_read(n), 2)
ReadInt(src, p, bits_read, n) ==
    LET r == Read(src, p, bits_read, n) IN
    [r EXCEPT !.val = IF r.ok THEN Some(BinToInt(r.chars)) ELSE None]

\* NewParser as it would be if the counter went on from the offset of the source.
NewParserCounting(start) ==
    [pc |-> "version", bits_read |-> start,
     version |-> 0, type |-> "", value |-> None, sub_packets |-> <<>>,
     nibbles |-> <<>>, more |-> 0,
     length_type |-> BIT_COUNT, bit_count |-> 0, sub_count |-> 0, sub_bits_read |-> 0,
     start |-> start, sub_spans |-> <<>>]

\* A fresh _Parser(src) entering parse(); `start` and `sub_spans` are history
\* (the offset at which it was created, and the offsets around each sub-parse).
NewParser(start) ==
    [pc |-> "version", bits_read |-> 0,
     version |-> 0, type |-> "", value |-> None, sub_packets |-> <<>>,
     nibbles |-> <<>>, more |-> 0,
     length_type |-> BIT_COUNT, bit_count |-> 0, sub_count |-> 0, sub_bits_read |-> 0,
     start |-> start, sub_spans |-> <<>>]

Top == stack[Len(stack)]
SetTop(f) == [stack EXCEPT ![Len(stack)] = f]
Running == phase = "parsing" /\ stack # <<>>

\* Raise as it would be if _parse_sub_packets caught the exceptions of its
\* sub-parses and went on to return the sub-packets parsed so far.
RaiseToCaller(err) ==
    IF Len(stack) > 1
    THEN /\ stack' = [i \in 1..(Len(stack) - 1) |->
                        IF i = Len(stack) - 1 THEN [stack[i] EXCEPT !.pc = "return"]
                        ELSE stack[i]]
         /\ UNCHANGED <<phase, error>>
    ELSE /\ stack' = <<>>
         /\ phase' = "raised"
         /\ error' = err

\* An exception leaves every parse() on the stack and main().
Raise(err) ==
    /\ stack' = <<>>
    /\ phase' = "raised"
    /\ error' = err

\* The common shape of a step that does one read r of n bits and, when it
\* succeeds, continues as frame f.
AfterRead(r, n, f) ==
    /\ pos' = r.pos
    /\ lastRead' = Some([n |-> n, before |-> pos, ok |-> r.ok, chars |-> r.chars,
                         val |-> r.val, bits_read |-> r.bits_read,
                         bits_read_before |-> Top.bits_read])
    /\ IF r.ok
       THEN /\ stack' = SetTop([f EXCEPT !.bits_read = r.bits_read])
            /\ UNCHANGED <<phase, error>>
       ELSE Raise(EndOfString)
    /\ UNCHANGED <<bits, packet, printed, last, consumers, queue>>

\* _parse_version
ParseVersion ==
    /\ Running /\ Top.pc = "version"
    /\ LET r == ReadInt(bits, pos, Top.bits_read, VERSION_LEN) IN
       AfterRead(r, VERSION_LEN, [Top EXCEPT !.version = r.val[1], !.pc = "type"])

\* The branch of parse() on the packet type.
BodyOf(type) == IF type = LITERAL THEN "nibble_head" ELSE "length_type"

\* _parse_type
ParseType ==
    /\ Running /\ Top.pc = "type"
    /\ LET r == ReadInt(bits, pos, Top.bits_read, TYPE_ID_LEN) IN
       AfterRead(r, TYPE_ID_LEN,
                 [Top EXCEPT !.type = PacketType(r.val[1]),
                             !.pc = BodyOf(PacketType(r.val[1]))])

\* _parse_literal_body: more = self._read_int(_NIBBLE_HEAD_LEN)
ParseNibbleHead ==
    /\ Running /\ Top.pc = "nibble_head"
    /\ LET r == ReadInt(bits, pos, Top.bits_read, NIBBLE_HEAD_LEN) IN
       AfterRead(r, NIBBLE_HEAD_LEN, [Top EXCEPT !.more = r.val[1], !.pc = "nibble"])

\* LastNibble as it would be with the test inverted (`if more: break`).
LastNibbleInverted(more) == more # 0

\* `if not more: break`
LastNibble(more) == more = 0

\* LiteralValue as it would be if each group replaced the value instead of
\* extending it.
LiteralValueLastGroup(nibbles) ==
    BinToInt(SubSeq(nibbles, Len(nibbles) - NIBBLE_LEN + 1, Len(nibbles)))

\* int("".join(nibbles), 2)
LiteralValue(nibbles) == BinToInt(nibbles)

\* _parse_literal_body: nibbles.append(self._read(_NIBBLE_LEN)), then either the
\* next group or the value of all nibbles read.
ParseNibble ==
    /\ Running /\ Top.pc = "nibble"
    /\ LET r == Read(bits, pos, Top.bits_read, NIBBLE_LEN)
           nibbles == Top.nibbles \o r.chars
       IN  AfterRead(r, NIBBLE_LEN,
                     IF LastNibble(Top.more)
                     THEN [Top EXCEPT !.nibbles = nibbles,
                                      !.value = Some(LiteralValue(nibbles)),
                                      !.pc = "return"]
                     ELSE [Top EXCEPT !.nibbles = nibbles, !.pc = "nibble_head"])

\* _parse_sub_packets: the length type
ParseLengthType ==
    /\ Running /\ Top.pc = "length_type"
    /\ LET r == ReadInt(bits, pos, Top.bits_read, OP_HEAD_LEN) IN
       AfterRead(r, OP_HEAD_LEN,
                 [Top EXCEPT !.length_type = r.val[1],
                             !.pc = IF r.val[1] = BIT_COUNT THEN "bit_count"
                                    ELSE "sub_count"])

\* _parse_sub_packets: bit_count, and the loop's counter set to 0
ParseBitCount ==
    /\ Running /\ Top.pc = "bit_count"
    /\ LET r == ReadInt(bits, pos, Top.bits_read, OP_BIT_COUNT_LEN) IN
       AfterRead(r, OP_BIT_COUNT_LEN,
                 [Top EXCEPT !.bit_count = r.val[1], !.sub_bits_read = 0,
                             !.pc = "sub_packets"])

\* _parse_sub_packets: sub_count
ParseSubCount ==
    /\ Running /\ Top.pc = "sub_count"
    /\ LET r == ReadInt(bits, pos, Top.bits_read, OP_SUB_COUNT_LEN) IN
       AfterRead(r, OP_SUB_COUNT_LEN,
                 [Top EXCEPT !.sub_count = r.val[1], !.pc = "sub_packets"])

\* MoreSubPackets as it would be if the loops tested after their first turn.
MoreSubPacketsAtLeastOne(f) ==
    \/ f.sub_packets = <<>>
    \/ IF f.length_type = BIT_COUNT
       THEN f.sub_bits_read < f.bit_count
       ELSE Len(f.sub_packets) < f.sub_count

\* MoreSubPackets as it would be if the loops also ended with the source.
MoreSubPacketsWhileBits(f) ==
    /\ pos < Len(bits)
    /\ IF f.length_type = BIT_COUNT
       THEN f.sub_bits_read < f.bit_count
       ELSE Len(f.sub_packets) < f.sub_count

\* MoreSubPackets as it would be with the bounds inclusive.
MoreSubPacketsInclusive(f) ==
    IF f.length_type = BIT_COUNT
    THEN f.sub_bits_read <= f.bit_count
    ELSE Len(f.sub_packets) <= f.sub_count

\* The loop conditions: `while bits_read < bit_count` and `for _ in range(sub_count)`.
MoreSubPackets(f) ==
    IF f.length_type = BIT_COUNT
    THEN f.sub_bits_read < f.bit_count
    ELSE Len(f.sub_packets) < f.sub_count

\* FramingError as it would be if a comparison without exactly two sub-packets
\* were an error of the parse.
FramingErrorOrArity(f) ==
    \/ f.length_type = BIT_COUNT /\ f.sub_bits_read # f.bit_count
    \/ f.type \in {"GT", "LT", "EQ"} /\ Len(f.sub_packets) # 2

\* FramingError as it would be without the check after the loop.
NoFramingError(f) == FALSE

\* FramingError as it would be if only reading too little were an error.
FramingErrorUnderRead(f) ==
    f.length_type = BIT_COUNT /\ f.sub_bits_read < f.bit_count

\* `if bits_read != bit_count: raise`, after the bit-count loop.
FramingError(f) ==
    f.length_type = BIT_COUNT /\ f.sub_bits_read # f.bit_count

\* _parse_sub_packet: a fresh parser on the same source
ParseSubPacket ==
    /\ Running /\ Top.pc = "sub_packets"
    /\ MoreSubPackets(Top)
    /\ stack' = Append(stack, NewParser(pos))
    /\ UNCHANGED <<bits, pos, phase, packet, error, printed, lastRead, last, consumers, queue>>

\* The loop of _parse_sub_packets is over and the counts agree.
EndSubPackets ==
    /\ Running /\ Top.pc = "sub_packets"
    /\ ~MoreSubPackets(Top)
    /\ ~FramingError(Top)
    /\ stack' = SetTop([Top EXCEPT !.pc = "return"])
    /\ UNCHANGED <<bits, pos, phase, packet, error, printed, lastRead, last, consumers, queue>>

\* The bit-count loop is over and read a different number of bits.
RaiseFraming ==
    /\ Running /\ Top.pc = "sub_packets"
    /\ ~MoreSubPackets(Top)
    /\ FramingError(Top)
    /\ Raise(FramingMismatch)
    /\ UNCHANGED <<bits, pos, packet, printed, lastRead, last, consumers, queue>>

\* SubPacketBits as it would be if only the sub-packet's own length were added.
SubPacketBitsOwn(p) == p.length

\* What the bit-count loop adds for a sub-packet it parsed.
SubPacketBits(p) == SumLength(descendants(p))

\* ReturnedPacket as it would be if length counted the sub-packets' bits too.
ReturnedPacketWithDescendants(f) ==
    Packet(f.version, f.type, f.value, f.sub_packets,
           f.bits_read + SumLength(descendantsOfAll(f.sub_packets)))

\* ReturnedPacket as it would be if value started as 0 instead of None.
ReturnedPacketZeroValue(f) ==
    Packet(f.version, f.type, IF f.value = None THEN Some(0) ELSE f.value,
           f.sub_packets, f.bits_read)

\* The Packet parse() returns.
ReturnedPacket(f) == Packet(f.version, f.type, f.value, f.sub_packets, f.bits_read)

\* Yield as it would be if new sub-packets were put first.
YieldFirst(f, p, a, b) ==
    [f EXCEPT !.sub_packets = <<p>> \o @,
              !.sub_bits_read = IF f.length_type = BIT_COUNT
                                THEN @ + SumLength(descendants(p)) ELSE @,
              !.sub_spans = Append(@, <<a, b>>)]

\* The caller's frame once a sub-parse returned p (parsed between offsets a and b).
Yield(f, p, a, b) ==
    [f EXCEPT !.sub_packets = Append(@, p),
              !.sub_bits_read = IF f.length_type = BIT_COUNT
                                THEN @ + SubPacketBits(p) ELSE @,
              !.sub_spans = Append(@, <<a, b>>)]

\* parse() returns its Packet, to main() or to the _parse_sub_packets above it.
Return ==
    /\ Running /\ Top.pc = "return"
    /\ LET p == ReturnedPacket(Top) IN
       /\ last' = Some([frame |-> Top, packet |-> p, stop |-> pos, depth |-> Len(stack)])
       /\ IF Len(stack) = 1
          THEN /\ stack' = <<>>
               /\ packet' = Some(p)
               /\ phase' = "parsed"
          ELSE /\ stack' = [i \in 1..(Len(stack) - 1) |->
                              IF i = Len(stack) - 1
                              THEN Yield(stack[i], p, Top.start, pos)
                              ELSE stack[i]]
               /\ UNCHANGED <<packet, phase>>
    /\ UNCHANGED <<bits, pos, error, printed, lastRead, consumers, queue>>

-----------------------------------------------------------------------------
(* Expression *)

\* A value of the evaluation: an int, or a bool (which Python counts as 0 or 1).
IntValue(v) == [v |-> v, bool |-> FALSE]
BoolValue(b) == [v |-> IF b THEN 1 ELSE 0, bool |-> TRUE]

\* An operand that is an int rather than an Expression.
IntOperand(v) == [operator |-> "int", operands |-> <<>>, value |-> v]
Expression(operator, operands) == [operator |-> operator, operands |-> operands, value |-> 0]

\* Expression.from_packet, with _get_operand_from_packet for each sub-packet.
\* to_operator raises for a LITERAL packet; sub-packets that are literals never
\* reach it.
RECURSIVE from_packet(_)
RECURSIVE operands_from(_)
from_packet(p) ==
    IF ~is_operator(p.type)
    THEN [ok |-> FALSE, expr |-> None, err |-> NotAnOperator]
    ELSE [ok |-> TRUE, expr |-> Some(Expression(p.type, operands_from(p.sub_packets))),
          err |-> ""]
operands_from(ps) ==
    IF ps = <<>> THEN <<>>
    ELSE <<IF is_operator(Head(ps).type)
           THEN from_packet(Head(ps)).expr[1]
           ELSE IntOperand(Head(ps).value[1])>> \o operands_from(Tail(ps))

RECURSIVE SumValues(_)
SumValues(vs) == IF vs = <<>> THEN 0 ELSE Head(vs).v + SumValues(Tail(vs))

\* ProductValues as it would be with operator.add in place of operator.mul.
RECURSIVE ProductValuesAdded(_, _)
ProductValuesAdded(vs, acc) ==
    IF vs = <<>> THEN acc ELSE ProductValuesAdded(Tail(vs), acc + Head(vs).v)

RECURSIVE ProductValues(_, _)
ProductValues(vs, acc) ==
    IF vs = <<>> THEN acc ELSE ProductValues(Tail(vs), acc * Head(vs).v)

\* MinOf as it would be with the comparison the wrong way round.
RECURSIVE MinOfGreater(_, _)
MinOfGreater(vs, best) ==
    IF vs = <<>> THEN best
    ELSE MinOfGreater(Tail(vs), IF Head(vs).v > best.v THEN Head(vs) ELSE best)

\* min(values) and max(values): the first of the smallest (largest) ones.
RECURSIVE MinOf(_, _)
MinOf(vs, best) ==
    IF vs = <<>> THEN best
    ELSE MinOf(Tail(vs), IF Head(vs).v < best.v THEN Head(vs) ELSE best)

RECURSIVE MaxOf(_, _)
MaxOf(vs, best) ==
    IF vs = <<>> THEN best
    ELSE MaxOf(Tail(vs), IF Head(vs).v > best.v THEN Head(vs) ELSE best)

Value(x) == [ok |-> TRUE, val |-> Some(x), err |-> ""]
Failure(err) == [ok |-> FALSE, val |-> None, err |-> err]

\* Apply as it would be if the comparisons took their operands in reverse.
ApplyReversed(operator, vs) ==
    CASE operator = "SUM" -> Value(IntValue(SumValues(vs)))
      [] operator = "PRODUCT" -> Value(IntValue(ProductValues(vs, 1)))
      [] operator = "MINIMUM" ->
            IF vs = <<>> THEN Failure(EmptyArgument)
            ELSE Value(MinOf(Tail(vs), Head(vs)))
      [] operator = "MAXIMUM" ->
            IF vs = <<>> THEN Failure(EmptyArgument)
            ELSE Value(MaxOf(Tail(vs), Head(vs)))
      [] operator = "GT" ->
            IF Len(vs) # 2 THEN Failure(ArityError) ELSE Value(BoolValue(vs[2].v > vs[1].v))
      [] operator = "LT" ->
            IF Len(vs) # 2 THEN Failure(ArityError) ELSE Value(BoolValue(vs[2].v < vs[1].v))
      [] operator = "EQ" ->
            IF Len(vs) # 2 THEN Failure(ArityError) ELSE Value(BoolValue(vs[2].v = vs[1].v))

\* Apply as it would be if the comparisons took their first two operands and
\* passed over the others.
ApplyFirstTwo(operator, vs) ==
    CASE operator = "SUM" -> Value(IntValue(SumValues(vs)))
      [] operator = "PRODUCT" -> Value(IntValue(ProductValues(vs, 1)))
      [] operator = "MINIMUM" ->
            IF vs = <<>> THEN Failure(EmptyArgument)
            ELSE Value(MinOf(Tail(vs), Head(vs)))
      [] operator = "MAXIMUM" ->
            IF vs = <<>> THEN Failure(EmptyArgument)
            ELSE Value(MaxOf(Tail(vs), Head(vs)))
      [] operator = "GT" ->
            IF Len(vs) < 2 THEN Failure(ArityError) ELSE Value(BoolValue(vs[1].v > vs[2].v))
      [] operator = "LT" ->
            IF Len(vs) < 2 THEN Failure(ArityError) ELSE Value(BoolValue(vs[1].v < vs[2].v))
      [] operator = "EQ" ->
            IF Len(vs) < 2 THEN Failure(ArityError) ELSE Value(BoolValue(vs[1].v = vs[2].v))

\* The function to_operator returns for each operator type, applied to values.
Apply(operator, vs) ==
    CASE operator = "SUM" -> Value(IntValue(SumValues(vs)))
      [] operator = "PRODUCT" -> Value(IntValue(ProductValues(vs, 1)))
      [] operator = "MINIMUM" ->
            IF vs = <<>> THEN Failure(EmptyArgument)
            ELSE Value(MinOf(Tail(vs), Head(vs)))
      [] operator = "MAXIMUM" ->
            IF vs = <<>> THEN Failure(EmptyArgument)
            ELSE Value(MaxOf(Tail(vs), Head(vs)))
      [] operator = "GT" ->
            IF Len(vs) # 2 THEN Failure(ArityError) ELSE Value(BoolValue(vs[1].v > vs[2].v))
      [] operator = "LT" ->
            IF Len(vs) # 2 THEN Failure(ArityError) ELSE Value(BoolValue(vs[1].v < vs[2].v))
      [] operator = "EQ" ->
            IF Len(vs) # 2 THEN Failure(ArityError) ELSE Value(BoolValue(vs[1].v = vs[2].v))

\* Expression.eval with _eval_operands: the operands are evaluated in order,
\* the first failure leaves the evaluation.
RECURSIVE eval(_)
RECURSIVE eval_operands(_)
eval(e) ==
    LET vs == eval_operands(e.operands) IN
    IF vs.ok THEN Apply(e.operator, vs.val) ELSE Failure(vs.err)
eval_operands(es) ==
    IF es = <<>> THEN [ok |-> TRUE, val |-> <<>>, err |-> ""]
    ELSE LET operand == Head(es)
             x == IF operand.operator = "int" THEN Value(IntValue(operand.value))
                  ELSE eval(operand)
         IN  IF ~x.ok THEN [ok |-> FALSE, val |-> <<>>, err |-> x.err]
             ELSE LET rest == eval_operands(Tail(es)) IN
                  IF rest.ok THEN [rest EXCEPT !.val = x.val \o @] ELSE rest

-----------------------------------------------------------------------------
(* main *)

\* print(sum(p.version for p in packet.descendants()))
PrintVersionSum ==
    /\ phase = "parsed"
    /\ printed' = Append(printed, IntValue(SumVersion(descendants(packet[1]))))
    /\ phase' = "summed"
    /\ UNCHANGED <<bits, pos, stack, packet, error, lastRead, last, consumers, queue>>

\* expr = Expression.from_packet(packet); print(expr.eval())
PrintEval ==
    /\ phase = "summed"
    /\ LET expr == from_packet(packet[1])
           x == IF expr.ok THEN eval(expr.expr[1]) ELSE Failure(expr.err)
       IN  IF x.ok
           THEN /\ printed' = Append(printed, x.val[1])
                /\ phase' = "done"
                /\ UNCHANGED error
           ELSE /\ phase' = "raised"
                /\ error' = x.err
                /\ UNCHANGED printed
    /\ UNCHANGED <<bits, pos, stack, packet, lastRead, last, consumers, queue>>

-----------------------------------------------------------------------------
(* Inputs *)

\* Bounds of the inputs.
MaxValue == 20
MaxGroups == 3
MaxKids == 2
MaxNested == 2

\* v as w binary digits, most significant first.
RECURSIVE ToBits(_, _)
ToBits(v, w) == IF w = 0 THEN <<>> ELSE ToBits(v \div 2, w - 1) \o <<v % 2>>

RECURSIVE Pow(_, _)
Pow(b, e) == IF e = 0 THEN 1 ELSE b * Pow(b, e - 1)

TypeCode(type) == CHOOSE n \in 0..7 : PacketType(n) = type

\* k groups of v's low 4k bits, each flagged 1 (another group follows).
RECURSIVE ContinuedGroups(_, _)
ContinuedGroups(v, k) ==
    IF k = 0 THEN <<>>
    ELSE ContinuedGroups(v \div 16, k - 1) \o <<1>> \o ToBits(v % 16, NIBBLE_LEN)

\* v as a chain of k continuation-nibble groups: all flagged 1 but the last.
EncodeGroups(v, k) ==
    ContinuedGroups(v \div 16, k - 1) \o <<0>> \o ToBits(v % 16, NIBBLE_LEN)

EncodeHeader(version, type) ==
    ToBits(version, VERSION_LEN) \o ToBits(TypeCode(type), TYPE_ID_LEN)

RECURSIVE Concat(_)
Concat(ss) == IF ss = <<>> THEN <<>> ELSE Head(ss) \o Concat(Tail(ss))

\* An operator packet's bits, with the count field as declared.
EncodeOperator(version, type, length_type, declared, body) ==
    EncodeHeader(version, type) \o <<length_type>>
        \o ToBits(declared, IF length_type = BIT_COUNT THEN OP_BIT_COUNT_LEN
                            ELSE OP_SUB_COUNT_LEN)
        \o body

LiteralLength(k) == VERSION_LEN + TYPE_ID_LEN + k * (NIBBLE_HEAD_LEN + NIBBLE_LEN)
OperatorLength(length_type) ==
    VERSION_LEN + TYPE_ID_LEN + OP_HEAD_LEN
        + (IF length_type = BIT_COUNT THEN OP_BIT_COUNT_LEN ELSE OP_SUB_COUNT_LEN)

\* The bits that decode to packet p: a literal of (p.length - 6) / 5 groups, an
\* operator in the length type its own length shows, its count field agreeing
\* with its sub-packets.
RECURSIVE Encode(_)
Encode(p) ==
    IF p.type = LITERAL
    THEN EncodeHeader(p.version, p.type)
            \o EncodeGroups(p.value[1],
                            (p.length - VERSION_LEN - TYPE_ID_LEN)
                                \div (NIBBLE_HEAD_LEN + NIBBLE_LEN))
    ELSE LET body == Concat([i \in 1..Len(p.sub_packets) |-> Encode(p.sub_packets[i])])
             length_type == IF p.length = OperatorLength(BIT_COUNT) THEN BIT_COUNT
                            ELSE SUB_COUNT
         IN  EncodeOperator(p.version, p.type, length_type,
                            IF length_type = BIT_COUNT THEN Len(body)
                            ELSE Len(p.sub_packets),
                            body)

Lit(version, v, k) == Packet(version, LITERAL, Some(v), <<>>, LiteralLength(k))
Op(version, type, length_type, kids) ==
    Packet(version, type, None, kids, OperatorLength(length_type))

SeqsUpTo(S, n) == UNION { [1..m -> S] : m \in 0..n }
Zeros(n) == [i \in 1..n |-> 0]
Prefixes(s) == { SubSeq(s, 1, n) : n \in 0..(Len(s) - 1) }

OperatorTypes == { PacketType(n) : n \in 0..7 } \ {LITERAL}
LengthTypes == {BIT_COUNT, SUB_COUNT}
Pads == { <<>>, <<0, 0, 0>> }

\* The hexadecimal inputs of the puzzle text.
Examples ==
    { <<"D","2","F","E","2","8">>,
      <<"3","8","0","0","6","F","4","5","2","9","1","2","0","0">>,
      <<"E","E","0","0","D","4","0","C","8","2","3","0","6","0">>,
      <<"8","A","0","0","4","A","8","0","1","A","8","0","0","2","F","4","7","8">>,
      <<"9","C","0","1","4","1","0","8","0","2","5","0","3","2","0","F","1","8","0","2",
        "1","0","4","A","0","8">> }

\* Literals of every value up to MaxValue in every number of groups up to
\* MaxGroups that holds it (leading zero nibbles included).
LiteralPackets ==
    { Lit(6, v, k) : <<v, k>> \in
        { vk \in (0..MaxValue) \X (1..MaxGroups) : vk[1] < Pow(16, vk[2]) } }

\* The sub-packets of the generated operators: 3, 3 with a leading zero nibble, 20.
KidLiterals == { Lit(1, 3, 1), Lit(2, 3, 2), Lit(5, 20, 2) }

\* Every operator type in both length types over up to MaxKids literals.
FlatOperators ==
    { Op(4, type, lt, kids) :
        type \in OperatorTypes, lt \in LengthTypes, kids \in SeqsUpTo(KidLiterals, MaxKids) }

\* Operators over operators.
InnerOperators ==
    { Op(3, IF lt = BIT_COUNT THEN "PRODUCT" ELSE "MAXIMUM", lt, kids) :
        lt \in LengthTypes, kids \in SeqsUpTo({Lit(0, 7, 1)}, 2) \ {<<>>} }
NestedOperators ==
    { Op(7, type, lt, kids) :
        type \in {"SUM", "MINIMUM", "MAXIMUM", "LT"}, lt \in LengthTypes,
        kids \in SeqsUpTo(InnerOperators \cup {Lit(1, 3, 1)}, MaxNested) \ {<<>>} }

\* The comparisons over one, two and three literals, at the root and below a sum.
Comparisons ==
    { Op(4, type, lt, kids) :
        type \in {"GT", "LT", "EQ"}, lt \in LengthTypes,
        kids \in UNION { [1..m -> {Lit(1, 3, 1), Lit(5, 20, 2)}] : m \in 1..3 } }
NestedComparisons ==
    { Op(7, "SUM", SUB_COUNT, <<Lit(1, 3, 1), p>>) :
        p \in { q \in Comparisons : q.length = OperatorLength(SUB_COUNT) } }

\* The count fields of an operator whose sub-packets count `actual`: none, one
\* less, one more.
Miscounts(actual) == {0, actual - 1, actual + 1} \cap (0..(actual + 1))

\* Operators whose count field disagrees with the sub-packets that follow, alone
\* or followed by one more literal.
Misframed ==
    UNION { LET body == Concat([i \in 1..Len(kids) |-> Encode(kids[i])]) IN
            { EncodeOperator(4, type, lt, declared, body) \o pad :
                type \in {"SUM", "GT"},
                declared \in Miscounts(IF lt = BIT_COUNT THEN Len(body) ELSE Len(kids)),
                pad \in {<<>>, Encode(Lit(0, 9, 1))} } :
            lt \in LengthTypes, kids \in SeqsUpTo(KidLiterals, MaxKids) }

Inputs ==
    { hextobin(h) : h \in Examples }
        \cup { Encode(p) \o pad : p \in LiteralPackets, pad \in Pads }
        \cup { Encode(p) \o pad : p \in FlatOperators, pad \in Pads }
        \cup { Encode(p) : p \in NestedOperators }
        \cup { Encode(p) : p \in Comparisons \cup NestedComparisons }
        \cup Misframed
        \cup UNION { Prefixes(hextobin(h)) : h \in Examples }

Init ==
    /\ bits \in Inputs
    /\ pos = 0
    /\ stack = <<NewParser(0)>>
    /\ phase = "parsing"
    /\ packet = None
    /\ error = ""
    /\ printed = <<>>
    /\ lastRead = None
    /\ last = None
    /\ threads = <<>>
    /\ heap = <<>>
    /\ elements = <<>>
    /\ queued = <<>>
    /\ popped = None

Next ==
    \/ ParseVersion
    \/ ParseType
    \/ ParseNibbleHead
    \/ ParseNibble
    \/ ParseLengthType
    \/ ParseBitCount
    \/ ParseSubCount
    \/ ParseSubPacket
    \/ EndSubPackets
    \/ RaiseFraming
    \/ Return
    \/ PrintVersionSum
    \/ PrintEval

Spec == Init /\ [][Next]_vars

-----------------------------------------------------------------------------
(* Properties *)

\* The unsigned value of a bit sequence, most significant bit first.
BigEndianValue(chars) ==
    LET n == Len(chars)
        term[i \in 0..n] == IF i = 0 THEN 0 ELSE term[i - 1] + chars[i] * Pow(2, n - i)
    IN  term[n]

\* The bits drawn between the offsets of a span.
SpanBits(span) == span[2] - span[1]

RECURSIVE SumSpans(_)
SumSpans(spans) == IF spans = <<>> THEN 0 ELSE SpanBits(Head(spans)) + SumSpans(Tail(spans))

Returned == last # None
LastFrame == last[1].frame
LastPacket == last[1].packet
\* The bits drawn from the source between the start and the end of the parse
\* that returned last, its sub-parses included.
LastConsumed == last[1].stop - LastFrame.start
LastIsOperator == Returned /\ is_operator(LastPacket.type)
LastIsLiteral == Returned /\ ~is_operator(LastPacket.type)
Parsed == phase # "parsing" /\ packet # None

\* C1 as stated: the length of every packet a parse returns is the number of
\* bits drawn from the source between the start and the end of its parse,
\* the bits of its descendants included.
C1_LengthIsAllBitsConsumed ==
    Returned => LastPacket.length = LastConsumed

\* C1, amended: the length of every packet a parse returns is the number of bits
\* drawn between the start and the end of its parse less the bits drawn by the
\* parses of its sub-packets; for a packet without sub-packets it is all of them.
C1_LengthIsOwnBitsConsumed ==
    Returned =>
        /\ LastPacket.length = LastConsumed - SumSpans(LastFrame.sub_spans)
        /\ LastPacket.sub_packets = <<>> => LastPacket.length = LastConsumed

\* C1 witness: a nested operator with sub-packets returned.
C1_Witness ==
    /\ LastIsOperator
    /\ last[1].depth > 1
    /\ LastPacket.sub_packets # <<>>

\* C2: an operator in bit-count mode that parses has sub-packets parsed one
\* after another from the bit after its count field, each ending where the next
\* starts, the bits of the sub-packets before the last staying under the
\* declared total and the bits of all of them equal to it; 38006F45291200 gives
\* a bit-count operator over two literals, 10 and 20.
C2_BitCountFilledExactly ==
    /\ (LastIsOperator /\ LastFrame.length_type = BIT_COUNT) =>
          LET spans == LastFrame.sub_spans IN
          /\ Len(spans) = Len(LastPacket.sub_packets)
          /\ SumSpans(spans) = LastFrame.bit_count
          /\ \A i \in 1..Len(spans) :
                /\ spans[i][1] = IF i = 1
                                 THEN LastFrame.start + OperatorLength(BIT_COUNT)
                                 ELSE spans[i - 1][2]
                /\ SumSpans(SubSeq(spans, 1, i - 1)) < LastFrame.bit_count
          /\ last[1].stop = LastFrame.start + OperatorLength(BIT_COUNT) + LastFrame.bit_count
    /\ (bits = hextobin(<<"3","8","0","0","6","F","4","5","2","9","1","2","0","0">>)
            /\ phase # "parsing") =>
          /\ packet # None
          /\ is_operator(packet[1].type)
          /\ packet[1].length = OperatorLength(BIT_COUNT)
          /\ Len(packet[1].sub_packets) = 2
          /\ packet[1].sub_packets[1].type = LITERAL
          /\ packet[1].sub_packets[1].value = Some(10)
          /\ packet[1].sub_packets[2].type = LITERAL
          /\ packet[1].sub_packets[2].value = Some(20)

\* C2 witness: the bit-count operator of 38006F45291200 returned, two sub-packets in it.
C2_Witness ==
    /\ bits = hextobin(<<"3","8","0","0","6","F","4","5","2","9","1","2","0","0">>)
    /\ LastIsOperator
    /\ LastFrame.length_type = BIT_COUNT
    /\ LastFrame.bit_count = 27
    /\ Len(LastPacket.sub_packets) = 2

\* C3: in bit-count mode, once the bits counted for the sub-packets exceed the
\* declared total, the next step raises the framing error out of every parse:
\* no Packet is returned.
C3_OverrunRaises ==
    [][ ( /\ Running
          /\ Top.pc = "sub_packets"
          /\ Top.length_type = BIT_COUNT
          /\ Top.sub_bits_read > Top.bit_count )
        => ( /\ phase' = "raised"
             /\ error' = FramingMismatch
             /\ stack' = <<>>
             /\ packet' = None
             /\ last' = last ) ]_vars

\* C3 witness: the framing error was raised after at least one sub-packet was parsed.
C3_Witness ==
    /\ phase = "raised"
    /\ error = FramingMismatch
    /\ packet = None
    /\ Returned

\* C4: an operator in sub-count mode that parses has as many sub-packets as its
\* count field declares, and the i-th of them is the packet parsed i-th from the
\* stream: its bits are those between the end of the one before (or of the
\* count field) and its own end.
C4_SubCountExactInOrder ==
    (LastIsOperator /\ LastFrame.length_type = SUB_COUNT) =>
        LET spans == LastFrame.sub_spans
            subs == LastPacket.sub_packets
        IN  /\ Len(subs) = LastFrame.sub_count
            /\ Len(spans) = Len(subs)
            /\ \A i \in 1..Len(subs) :
                  /\ spans[i][1] = IF i = 1
                                   THEN LastFrame.start + OperatorLength(SUB_COUNT)
                                   ELSE spans[i - 1][2]
                  /\ spans[i][1] < spans[i][2]
                  /\ Encode(subs[i]) = SubSeq(bits, spans[i][1] + 1, spans[i][2])
            /\ last[1].stop = IF spans = <<>>
                              THEN LastFrame.start + OperatorLength(SUB_COUNT)
                              ELSE spans[Len(spans)][2]

\* C4 witness: a sub-count operator returned with two different sub-packets.
C4_Witness ==
    /\ LastIsOperator
    /\ LastFrame.length_type = SUB_COUNT
    /\ LastFrame.sub_count >= 2
    /\ LastPacket.sub_packets[1] # LastPacket.sub_packets[2]

\* C5: a read of n bits fails with the end-of-string error exactly when fewer
\* than n bits remain, and then returns nothing; a read that succeeds returns
\* the next n bits in order, leaves the offset n further, and its integer is
\* their big-endian unsigned value.
C5_ReadAllOrRaise ==
    lastRead # None =>
        LET r == lastRead[1] IN
        /\ r.ok <=> Len(bits) - r.before >= r.n
        /\ r.ok =>
              /\ Len(r.chars) = r.n
              /\ r.chars = SubSeq(bits, r.before + 1, r.before + r.n)
              /\ pos = r.before + r.n
              /\ r.val # None => r.val[1] = BigEndianValue(r.chars)
        /\ ~r.ok =>
              /\ r.chars = <<>>
              /\ r.val = None
              /\ phase = "raised"
              /\ error = EndOfString
              /\ packet = None

\* C5 witness: a read failed with some, but fewer than n, bits remaining.
C5_Witness ==
    /\ lastRead # None
    /\ ~lastRead[1].ok
    /\ lastRead[1].before < Len(bits)
    /\ error = EndOfString

\* C6: when the top-level parse returns, the bits drawn from the source are
\* exactly the bits of the root packet and its descendants: the prefix of the
\* input that was drawn is the encoding of the packet returned, and nothing
\* after it was read.
C6_ConsumesExactlyThePacket ==
    Parsed =>
        /\ pos <= Len(bits)
        /\ SubSeq(bits, 1, pos) = Encode(packet[1])
        /\ pos = SumLength(descendants(packet[1]))

\* C6 witness: the parse of an operator over sub-packets returned and bits
\* after the root were left in the source.
C6_Witness ==
    /\ Parsed
    /\ packet[1].sub_packets # <<>>
    /\ pos < Len(bits)

\* The groups of a literal parsed from offset `from` + 1 on: k groups of 5 bits.
GroupFlag(from, i) == bits[from + (i - 1) * (NIBBLE_HEAD_LEN + NIBBLE_LEN) + 1]
GroupNibble(from, i) ==
    SubSeq(bits, from + (i - 1) * (NIBBLE_HEAD_LEN + NIBBLE_LEN) + NIBBLE_HEAD_LEN + 1,
                 from + i * (NIBBLE_HEAD_LEN + NIBBLE_LEN))

\* C7: a literal's body is read as 5-bit groups up to and including the first
\* group whose continuation bit is 0, and its value is the big-endian number
\* whose 4-bit digits are the value parts of the groups in read order; the
\* single group 00000 gives 0.
C7_LiteralGroups ==
    LastIsLiteral =>
        LET from == LastFrame.start + VERSION_LEN + TYPE_ID_LEN
            read == last[1].stop - from
            k == read \div (NIBBLE_HEAD_LEN + NIBBLE_LEN)
            digits[i \in 0..k] ==
                IF i = 0 THEN 0
                ELSE 16 * digits[i - 1] + BigEndianValue(GroupNibble(from, i))
        IN  /\ read = k * (NIBBLE_HEAD_LEN + NIBBLE_LEN)
            /\ k >= 1
            /\ \A i \in 1..(k - 1) : GroupFlag(from, i) = 1
            /\ GroupFlag(from, k) = 0
            /\ LastPacket.value = Some(digits[k])
            /\ SubSeq(bits, from + 1, from + 5) = <<0, 0, 0, 0, 0>> =>
                  k = 1 /\ LastPacket.value = Some(0)

\* C7 witness: a literal of several groups and a value of more than one digit returned.
C7_Witness ==
    /\ LastIsLiteral
    /\ LastPacket.length >= LiteralLength(2)
    /\ LastPacket.value[1] >= 16

\* C8: for every value v and every number k of groups that holds it, parsing
\* the literal whose body is v encoded as k continuation-nibble groups (leading
\* zero nibbles when k is more than v needs) succeeds and gives v.
C8_LiteralRoundTrip ==
    phase # "parsing" =>
        \A v \in 0..MaxValue, k \in 1..MaxGroups :
            LET encoding == EncodeHeader(6, LITERAL) \o EncodeGroups(v, k) IN
            (v < Pow(16, k) /\ Len(encoding) <= Len(bits)
                /\ SubSeq(bits, 1, Len(encoding)) = encoding) =>
                /\ packet # None
                /\ packet[1].type = LITERAL
                /\ packet[1].value = Some(v)
                /\ pos = Len(encoding)

\* C8 witness: 17 encoded in three groups, the first a zero nibble, was parsed.
C8_Witness ==
    /\ Parsed
    /\ Len(bits) >= LiteralLength(3)
    /\ SubSeq(bits, 1, LiteralLength(3)) = EncodeHeader(6, LITERAL) \o EncodeGroups(17, 3)
    /\ packet[1].value = Some(17)

\* C9 as stated: every packet a parse returns has exactly one of a value and
\* sub-packets; a literal has a value and no sub-packets, an operator has
\* sub-packets and no value.
C9_ValueXorChildren ==
    Returned =>
        /\ (LastPacket.value # None) # (LastPacket.sub_packets # <<>>)
        /\ LastPacket.type = LITERAL =>
              LastPacket.value # None /\ LastPacket.sub_packets = <<>>
        /\ is_operator(LastPacket.type) =>
              LastPacket.value = None /\ LastPacket.sub_packets # <<>>

\* The count field of an operator's frame.
Declared(f) == IF f.length_type = BIT_COUNT THEN f.bit_count ELSE f.sub_count

\* C9, amended: every packet a parse returns has at most one of a value and
\* sub-packets; a literal has a value and no sub-packets, an operator has no
\* value, and has sub-packets unless its count field (bit count or sub-packet
\* count) is 0, and then it has none.
C9_ValueOrChildren ==
    Returned =>
        /\ ~(LastPacket.value # None /\ LastPacket.sub_packets # <<>>)
        /\ LastPacket.type = LITERAL =>
              LastPacket.value # None /\ LastPacket.sub_packets = <<>>
        /\ is_operator(LastPacket.type) =>
              /\ LastPacket.value = None
              /\ LastPacket.sub_packets = <<>> <=> Declared(LastFrame) = 0

\* C9 witness: an operator with no sub-packets returned.
C9_Witness ==
    /\ LastIsOperator
    /\ LastPacket.sub_packets = <<>>
    /\ LastPacket.value = None

\* C10 as stated: evaluating a literal gives its value, also when the literal
\* is the root packet main() hands to Expression.from_packet(...).eval().
C10_LiteralEvaluatesToItsValue ==
    (phase \in {"done", "raised"} /\ packet # None /\ packet[1].type = LITERAL) =>
        /\ phase = "done"
        /\ Len(printed) = 2
        /\ printed[2] = IntValue(packet[1].value[1])

-----------------------------------------------------------------------------
(* Properties of the evaluation *)

Range(f) == { f[i] : i \in DOMAIN f }

RECURSIVE Sum(_)
Sum(xs) == IF xs = <<>> THEN 0 ELSE Head(xs) + Sum(Tail(xs))

RECURSIVE Product(_)
Product(xs) == IF xs = <<>> THEN 1 ELSE Head(xs) * Product(Tail(xs))

Minimum(xs) == CHOOSE m \in Range(xs) : \A x \in Range(xs) : m <= x
Maximum(xs) == CHOOSE m \in Range(xs) : \A x \in Range(xs) : m >= x

\* The value of a packet as the puzzle defines it, None where it defines none
\* (a minimum or maximum of nothing, a comparison of other than two values).
RECURSIVE Evaluate(_)
Evaluate(p) ==
    IF p.type = LITERAL THEN p.value
    ELSE LET subs == [i \in 1..Len(p.sub_packets) |-> Evaluate(p.sub_packets[i])] IN
         IF \E i \in 1..Len(subs) : subs[i] = None THEN None
         ELSE LET xs == [i \in 1..Len(subs) |-> subs[i][1]] IN
              CASE p.type = "SUM" -> Some(Sum(xs))
                [] p.type = "PRODUCT" -> Some(Product(xs))
                [] p.type = "MINIMUM" -> IF xs = <<>> THEN None ELSE Some(Minimum(xs))
                [] p.type = "MAXIMUM" -> IF xs = <<>> THEN None ELSE Some(Maximum(xs))
                [] p.type = "GT" ->
                      IF Len(xs) # 2 THEN None ELSE Some(IF xs[1] > xs[2] THEN 1 ELSE 0)
                [] p.type = "LT" ->
                      IF Len(xs) # 2 THEN None ELSE Some(IF xs[1] < xs[2] THEN 1 ELSE 0)
                [] p.type = "EQ" ->
                      IF Len(xs) # 2 THEN None ELSE Some(IF xs[1] = xs[2] THEN 1 ELSE 0)

\* The values of the sub-packets of the root, when each of them has one.
Root == packet[1]
Evaluated == phase \in {"done", "raised"} /\ packet # None
SubValues == [i \in 1..Len(Root.sub_packets) |-> Evaluate(Root.sub_packets[i])[1]]
SubValuesExist == \A i \in 1..Len(Root.sub_packets) : Evaluate(Root.sub_packets[i]) # None

\* C11: evaluating a sum gives the sum of the values of its sub-packets, 0 when
\* it has none; evaluating a product gives their product, 1 when it has none.
C11_SumAndProduct ==
    (Evaluated /\ Root.type \in {"SUM", "PRODUCT"} /\ SubValuesExist) =>
        /\ phase = "done"
        /\ Len(printed) = 2
        /\ Root.type = "SUM" => printed[2] = IntValue(Sum(SubValues))
        /\ Root.type = "PRODUCT" => printed[2] = IntValue(Product(SubValues))
        /\ (Root.type = "SUM" /\ Root.sub_packets = <<>>) => printed[2].v = 0
        /\ (Root.type = "PRODUCT" /\ Root.sub_packets = <<>>) => printed[2].v = 1

\* C11 witness: a product of two values, both other than 0 and 1, was evaluated.
C11_Witness ==
    /\ phase = "done"
    /\ Root.type = "PRODUCT"
    /\ Len(Root.sub_packets) = 2
    /\ \A i \in 1..2 : Evaluate(Root.sub_packets[i])[1] > 1

\* C12: evaluating a minimum (maximum) of at least one sub-packet gives the
\* least (greatest) of the values of its sub-packets, those of operator
\* sub-packets being their own evaluation.
C12_MinimumAndMaximum ==
    (Evaluated /\ Root.type \in {"MINIMUM", "MAXIMUM"} /\ Root.sub_packets # <<>>
        /\ SubValuesExist) =>
        /\ phase = "done"
        /\ Len(printed) = 2
        /\ printed[2].v \in Range(SubValues)
        /\ Root.type = "MINIMUM" => \A x \in Range(SubValues) : printed[2].v <= x
        /\ Root.type = "MAXIMUM" => \A x \in Range(SubValues) : printed[2].v >= x

\* C12 witness: a minimum over an operator and a literal of different values
\* was evaluated.
C12_Witness ==
    /\ phase = "done"
    /\ Root.type = "MINIMUM"
    /\ Len(Root.sub_packets) = 2
    /\ is_operator(Root.sub_packets[1].type)
    /\ ~is_operator(Root.sub_packets[2].type)
    /\ Evaluate(Root.sub_packets[1]) # Evaluate(Root.sub_packets[2])

\* C13: evaluating a comparison of two sub-packets gives 1 when the value of
\* the first in the stream is greater than (GT), less than (LT), equal to (EQ)
\* the value of the second, and 0 otherwise; 9C0141080250320F1802104A08 gives 1.
C13_Comparisons ==
    /\ (Evaluated /\ Root.type \in {"GT", "LT", "EQ"} /\ Len(Root.sub_packets) = 2
            /\ SubValuesExist) =>
          /\ phase = "done"
          /\ Len(printed) = 2
          /\ printed[2].v \in {0, 1}
          /\ Root.type = "GT" => (printed[2].v = 1 <=> SubValues[1] > SubValues[2])
          /\ Root.type = "LT" => (printed[2].v = 1 <=> SubValues[1] < SubValues[2])
          /\ Root.type = "EQ" => (printed[2].v = 1 <=> SubValues[1] = SubValues[2])
          /\ Encode(Root.sub_packets[1]) =
                SubSeq(bits, Root.length + 1, Root.length + Len(Encode(Root.sub_packets[1])))
    /\ (bits = hextobin(<<"9","C","0","1","4","1","0","8","0","2","5","0","3","2","0","F",
                          "1","8","0","2","1","0","4","A","0","8">>)
            /\ phase \in {"done", "raised"}) =>
          /\ phase = "done"
          /\ Root.type = "EQ"
          /\ printed[2].v = 1

\* C13 witness: a comparison whose first value is the smaller one gave 1.
C13_Witness ==
    /\ phase = "done"
    /\ Root.type = "LT"
    /\ Len(Root.sub_packets) = 2
    /\ Evaluate(Root.sub_packets[1])[1] < Evaluate(Root.sub_packets[2])[1]
    /\ printed[2].v = 1

\* The packets of a tree that are comparisons of other than two sub-packets.
Malformed(p) ==
    { i \in 1..Len(descendants(p)) :
        /\ descendants(p)[i].type \in {"GT", "LT", "EQ"}
        /\ Len(descendants(p)[i].sub_packets) # 2 }

\* C14: evaluating a comparison that has not exactly two sub-packets (none,
\* one, three or more), at the root or below it, ends in an error that leaves
\* main(): no value is printed for it.
C14_ArityErrorSurfaces ==
    (Evaluated /\ Malformed(Root) # {}) =>
        /\ phase = "raised"
        /\ error # ""
        /\ Len(printed) = 1
        /\ (\A i \in 1..Len(descendants(Root)) :
                descendants(Root)[i].type \in {"MINIMUM", "MAXIMUM"}
                    => descendants(Root)[i].sub_packets # <<>>)
              => error = ArityError

\* C14 witness: a comparison of three sub-packets was evaluated.
C14_Witness ==
    /\ Evaluated
    /\ Root.type \in {"GT", "LT", "EQ"}
    /\ Len(Root.sub_packets) = 3
    /\ error = ArityError

-----------------------------------------------------------------------------
(* Properties of the version sum, the type table, errors and offsets *)

\* The version total of a tree: the packet's version and the totals of its sub-packets.
RECURSIVE TotalVersion(_)
TotalVersion(p) ==
    p.version + Sum([i \in 1..Len(p.sub_packets) |-> TotalVersion(p.sub_packets[i])])

Summed == phase \in {"summed", "done", "raised"} /\ packet # None

\* C15 as stated: the version sum printed is the root's version plus the
\* version totals of its sub-packets, and for a tree in which no operator is
\* nested (no sub-packet of the root is an operator) it is the root's version.
C15_VersionTotalRootOnly ==
    Summed =>
        /\ Len(printed) >= 1
        /\ printed[1] = IntValue(TotalVersion(Root))
        /\ (\A i \in 1..Len(Root.sub_packets) : ~is_operator(Root.sub_packets[i].type))
              => printed[1].v = Root.version

\* C15, amended: the version sum printed is the root's version plus the version
\* totals of its sub-packets, every packet of the tree counted once, and for a
\* tree whose root has no sub-packets it is the root's version.
C15_VersionTotal ==
    Summed =>
        /\ Len(printed) >= 1
        /\ printed[1] = IntValue(TotalVersion(Root))
        /\ Root.sub_packets = <<>> => printed[1].v = Root.version

\* C15 witness: the versions of a tree of three levels were summed.
C15_Witness ==
    /\ Summed
    /\ \E i \in 1..Len(Root.sub_packets) :
          /\ Root.sub_packets[i].sub_packets # <<>>
          /\ Root.sub_packets[i].sub_packets[1].version > 0
          /\ Root.sub_packets[i].version > 0

\* The packet kinds by type code, 0 first.
Kinds == <<"SUM", "PRODUCT", "MINIMUM", "MAXIMUM", "LITERAL", "GT", "LT", "EQ">>

\* The type code in the stream of the packet a frame parses.
TypeCodeRead(f) ==
    BigEndianValue(SubSeq(bits, f.start + VERSION_LEN + 1,
                                f.start + VERSION_LEN + TYPE_ID_LEN))

\* What C16 says of a frame that has read its type.
TypeAsRead(f) ==
    f.pc \notin {"version", "type"} =>
        /\ f.type = Kinds[TypeCodeRead(f) + 1]
        /\ f.pc \in {"nibble_head", "nibble"} => TypeCodeRead(f) = 4
        /\ f.pc \in {"length_type", "bit_count", "sub_count", "sub_packets"}
              => TypeCodeRead(f) # 4
        /\ f.pc = "return" => (f.value # None <=> TypeCodeRead(f) = 4)

\* C16: the kind of every packet is the one the table 0=Sum, 1=Product,
\* 2=Minimum, 3=Maximum, 4=Literal, 5=GreaterThan, 6=LessThan, 7=EqualTo gives
\* for the 3 bits after its version; code 4 alone is parsed as a literal, every
\* other code as an operator.
C16_TypeTable ==
    /\ \A i \in 1..Len(stack) : TypeAsRead(stack[i])
    /\ Returned =>
          /\ TypeAsRead(LastFrame)
          /\ LastPacket.type = Kinds[TypeCodeRead(LastFrame) + 1]
          /\ LastPacket.value # None <=> TypeCodeRead(LastFrame) = 4

\* C16 witness: a packet of type code 5 returned as a GT operator.
C16_Witness ==
    /\ LastIsOperator
    /\ TypeCodeRead(LastFrame) = 5
    /\ LastPacket.type = "GT"
    /\ LastPacket.sub_packets # <<>>

\* The parse ended in an exception: no frame, no packet, nothing printed.
Aborted == phase = "raised" /\ stack = <<>> /\ packet = None /\ printed = <<>>

\* C17: a read past the end of the stream, or a bit-count overrun, at whatever
\* depth, ends the whole parse in that step: the exception leaves every parse()
\* and main(), no packet is returned, and nothing happens afterwards.
C17_ErrorsAbortTheParse ==
    [][ /\ (lastRead' # lastRead /\ ~lastRead'[1].ok) =>
              (Aborted' /\ error' = EndOfString)
        /\ (/\ Running
            /\ Top.pc = "sub_packets"
            /\ Top.length_type = BIT_COUNT
            /\ Top.sub_bits_read > Top.bit_count) =>
              (Aborted' /\ error' = FramingMismatch)
        /\ phase = "raised" => UNCHANGED vars ]_vars

\* C17 witness: a read failed after a sub-packet had been parsed, so below the
\* root, and the parse ended with no packet.
C17_Witness ==
    /\ Aborted
    /\ error = EndOfString
    /\ Returned
    /\ last[1].depth > 1

\* C18: D2FE28 is the bits 110100101111111000101000, parses to one literal of
\* version 6 and value 2021 (nibbles 0111 1110 0101) without sub-packets, and
\* its version sum is 6.
C18_ExampleLiteral ==
    bits = hextobin(<<"D","2","F","E","2","8">>) =>
        /\ bits = <<1,1,0,1,0,0, 1,0,1,1,1, 1,1,1,1,0, 0,0,1,0,1, 0,0,0>>
        /\ error \in {"", NotAnOperator}
        /\ Returned =>
              /\ LastFrame.nibbles = <<0,1,1,1, 1,1,1,0, 0,1,0,1>>
              /\ phase # "parsing"
        /\ phase # "parsing" =>
              /\ packet # None
              /\ Root.version = 6
              /\ Root.type = LITERAL
              /\ Root.value = Some(2021)
              /\ Root.sub_packets = <<>>
        /\ phase \notin {"parsing", "parsed"} => printed[1] = IntValue(6)

\* C18 witness: the version sum of D2FE28 was printed.
C18_Witness ==
    /\ bits = hextobin(<<"D","2","F","E","2","8">>)
    /\ phase = "summed"
    /\ Len(printed) = 1

\* C19: the offset into the source never decreases and never exceeds the
\* length of the bit sequence; it changes only in a read, which starts at the
\* offset the one before left, and a read of n bits that succeeds leaves it,
\* and the parser's own counter, exactly n further.
C19_OffsetAdvances ==
    [][ /\ pos' >= pos
        /\ pos' <= Len(bits)
        /\ bits' = bits
        /\ lastRead' = lastRead => pos' = pos
        /\ lastRead' # lastRead =>
              /\ lastRead'[1].before = pos
              /\ lastRead'[1].ok =>
                    /\ pos' = pos + lastRead'[1].n
                    /\ lastRead'[1].bits_read
                          = lastRead'[1].bits_read_before + lastRead'[1].n ]_vars

\* C19 witness: a read that succeeded ended at the end of the bit sequence.
C19_Witness ==
    /\ lastRead # None
    /\ lastRead[1].ok
    /\ lastRead[1].before > 0
    /\ pos = Len(bits)

\* C20 as stated: the lengths of the sub-packets of a bit-count operator plus
\* the 16 bits of its length type and count are the operator's own length.
C20_ChildrenPlusHeader ==
    (LastIsOperator /\ LastFrame.length_type = BIT_COUNT) =>
        SumLength(LastPacket.sub_packets) + OP_HEAD_LEN + OP_BIT_COUNT_LEN
            = LastPacket.length

\* C20, amended: the own length of a bit-count operator is the 22 bits of its
\* version, type, length type and count, whatever its sub-packets; the lengths
\* of all the packets below it (its sub-packets and their descendants) add up to
\* its count field, and with those 22 bits to the bits its parse drew.
C20_BitCountLengths ==
    (LastIsOperator /\ LastFrame.length_type = BIT_COUNT) =>
        /\ LastPacket.length
              = VERSION_LEN + TYPE_ID_LEN + OP_HEAD_LEN + OP_BIT_COUNT_LEN
        /\ SumLength(descendantsOfAll(LastPacket.sub_packets)) = LastFrame.bit_count
        /\ SumLength(descendantsOfAll(LastPacket.sub_packets)) + LastPacket.length
              = LastConsumed

\* C20 witness: a bit-count operator over an operator with sub-packets returned.
C20_Witness ==
    /\ LastIsOperator
    /\ LastFrame.length_type = BIT_COUNT
    /\ LastPacket.sub_packets # <<>>
    /\ LastPacket.sub_packets[1].sub_packets # <<>>

-----------------------------------------------------------------------------
(* Properties of malformed and unusual input *)

\* The bits of an operator's own fields in bit-count framing.
BitCountHeader == VERSION_LEN + TYPE_ID_LEN + OP_HEAD_LEN + OP_BIT_COUNT_LEN

\* Frame f is an operator in bit-count framing whose count field is not 0 and
\* whose count field is the end of the stream.
EndsAfterBitCount(f) ==
    /\ f.pc = "sub_packets"
    /\ f.length_type = BIT_COUNT
    /\ f.bit_count > 0
    /\ f.start + BitCountHeader = Len(bits)

\* C21: an operator in bit-count framing (length type 0) that declares a count
\* other than 0 and is followed by no sub-packet, the stream ending with the
\* count field, does not return a packet without sub-packets: its loop starts a
\* sub-parse, whose first read raises the end-of-stream error and ends the parse.
C21_NoSubPacketsRaises ==
    [][ /\ (Running /\ EndsAfterBitCount(Top)) =>
              /\ Top.sub_packets = <<>>
              /\ stack' = Append(stack, NewParser(pos))
              /\ phase' = "parsing"
        /\ (Running /\ Len(stack) > 1 /\ EndsAfterBitCount(stack[Len(stack) - 1])) =>
              /\ Aborted'
              /\ error' = EndOfString
              /\ ~lastRead'[1].ok ]_vars

\* C21 witness: the parse of an operator below the root, in bit-count framing
\* with a count other than 0 and nothing after it, ended in the end-of-stream error.
C21_Witness ==
    /\ Aborted
    /\ error = EndOfString
    /\ lastRead[1].before = Len(bits)
    /\ lastRead[1].n = VERSION_LEN
    /\ Len(bits) > BitCountHeader
    /\ bits[Len(bits) - OP_BIT_COUNT_LEN] = BIT_COUNT
    /\ BigEndianValue(SubSeq(bits, Len(bits) - OP_BIT_COUNT_LEN + 1, Len(bits))) > 0
    /\ BigEndianValue(SubSeq(bits, Len(bits) - BitCountHeader + VERSION_LEN + 1,
                             Len(bits) - BitCountHeader + VERSION_LEN + TYPE_ID_LEN)) # 4

Comparison(type) == type \in {"GT", "LT", "EQ"}

\* The root is a comparison with this many sub-packets.
RootComparison(n) ==
    /\ packet # None
    /\ Comparison(Root.type)
    /\ Len(Root.sub_packets) = n

\* C23 as stated: a comparison with more than two sub-packets evaluates to the
\* comparison of the values of the first two; only fewer than two raise.
C23_ExtraOperandsIgnored ==
    (Evaluated /\ Comparison(Root.type) /\ SubValuesExist) =>
        IF Len(Root.sub_packets) < 2
        THEN phase = "raised" /\ error = ArityError
        ELSE /\ phase = "done"
             /\ printed[2].v =
                  Evaluate(Packet(Root.version, Root.type, None,
                                  SubSeq(Root.sub_packets, 1, 2), Root.length))[1]

\* C23, amended: a comparison with more than two sub-packets raises the same
\* TypeError as one with fewer than two; only with exactly two is a value printed,
\* so no operand is ever passed over.
C23_ExtraOperandsRaise ==
    (Evaluated /\ Comparison(Root.type) /\ SubValuesExist) =>
        IF Len(Root.sub_packets) = 2
        THEN phase = "done" /\ Len(printed) = 2 /\ printed[2].bool
        ELSE phase = "raised" /\ error = ArityError /\ Len(printed) = 1

\* C23 witness: the evaluation of a comparison with three sub-packets, of which
\* the first two are in the relation, raised.
C23_Witness ==
    /\ phase = "raised"
    /\ error = ArityError
    /\ RootComparison(3)
    /\ Root.type = "LT"
    /\ Root.sub_packets[1].value[1] < Root.sub_packets[2].value[1]

\* The declared count of the frame of the last parse() that returned, in
\* sub-packets (sub-count framing) or bits (bit-count framing).
LastDeclared ==
    IF LastFrame.length_type = BIT_COUNT THEN LastFrame.bit_count ELSE LastFrame.sub_count

\* The inputs that are one comparison, framed as its count field says, over
\* no, one, two or three literals.
FramedComparisons ==
    { Encode(p) : p \in Comparisons \cup { q \in FlatOperators : Comparison(q.type) } }

\* C24: a comparison whose framing declares a number of sub-packets other than
\* two parses, in either framing, into a packet with as many sub-packets as were
\* framed; the parse raises nothing for it, and the TypeError of the arity comes
\* only from the evaluation, after the packet was returned and its versions summed.
C24_ArityNotParsed ==
    /\ (LastIsOperator /\ Comparison(LastPacket.type) /\ LastFrame.length_type = SUB_COUNT)
          => Len(LastPacket.sub_packets) = LastFrame.sub_count
    /\ (LastIsOperator /\ Comparison(LastPacket.type) /\ LastFrame.length_type = BIT_COUNT)
          => SumSpans(LastFrame.sub_spans) = LastFrame.bit_count
    /\ bits \in FramedComparisons =>
          /\ error \in {"", ArityError}
          /\ phase # "parsing" =>
                (packet # None /\ Comparison(Root.type) /\ Encode(Root) = bits)
    /\ error = ArityError => (packet # None /\ Len(printed) = 1)

\* C24 witness: a comparison with three sub-packets in bit-count framing was
\* returned to main().
C24_Witness ==
    /\ phase = "parsed"
    /\ RootComparison(3)
    /\ LastFrame.length_type = BIT_COUNT
    /\ last[1].depth = 1

\* Every sub-parse recorded in a frame drew at least the bits of the shortest
\* packet, a literal of one group.
SubParsesConsume(f) ==
    \A i \in 1..Len(f.sub_spans) : SpanBits(f.sub_spans[i]) >= LiteralLength(1)

\* The statements of parse() that read: _read returns or raises, so each of
\* them can always be executed.
ReadLabels == {"version", "type", "nibble_head", "nibble", "length_type", "bit_count",
               "sub_count"}

\* A parse that has not ended has a next step.
CanStep ==
    Running =>
        \/ Top.pc \in ReadLabels
        \/ Top.pc = "sub_packets" /\ ENABLED (ParseSubPacket \/ EndSubPackets \/ RaiseFraming)
        \/ Top.pc = "return" /\ ENABLED Return

\* A measure of what is left of the parse: the bits not yet drawn, then what the
\* innermost parser can still do without drawing one (return, or end its loop
\* and return, each to a caller that can do the same; a parser just created can
\* only read).
Rank ==
    (2 * Len(bits) + 6) * (Len(bits) - pos)
        + (IF ~Running THEN 0
           ELSE IF Top.pc = "version" THEN 1
           ELSE 2 * Len(stack) + (IF Top.pc = "return" THEN 2 ELSE 3))

\* C25: the parse of every finite bit sequence ends, in a packet returned to
\* main() or in an exception: while it runs it always has a next step, and every
\* step makes a measure dominated by the bits left in the stream smaller.  Every
\* turn of the literal loop draws its 1 + 4 bits or raises, and every sub-parse
\* of the two sub-packet loops draws at least 11 bits.
C25_ParsingTerminates ==
    /\ [](CanStep /\ Rank >= 0)
    /\ [](phase # "parsing" => (packet # None \/ phase = "raised"))
    /\ [](\A i \in 1..Len(stack) : SubParsesConsume(stack[i]))
    /\ [](Returned => SubParsesConsume(LastFrame))
    /\ [][ /\ Running => Rank' < Rank
           /\ (Running /\ Top.pc = "nibble_head") =>
                 (phase' = "raised" \/ pos' = pos + NIBBLE_HEAD_LEN)
           /\ (Running /\ Top.pc = "nibble") =>
                 (phase' = "raised" \/ pos' = pos + NIBBLE_LEN) ]_vars

\* C25 witness: a parse that went through a sub-packet loop and, for a literal
\* of two groups, twice through the literal loop, returned its packet.
C25_Witness ==
    /\ phase = "parsed"
    /\ \E i \in 1..Len(Root.sub_packets) :
          /\ Root.sub_packets[i].type = LITERAL
          /\ Root.sub_packets[i].length = LiteralLength(2)

-----------------------------------------------------------------------------
(* Properties of lengths and counters *)

\* C26: the lengths of a returned packet and all its descendants add up to the
\* bits drawn from the source during its parse, and what the bit-count loop has
\* added for the sub-packets parsed so far is the bits their parses drew, the
\* difference of the offsets around each.
C26_LengthsAreBitsDrawn ==
    /\ Returned => SumLength(descendants(LastPacket)) = last[1].stop - LastFrame.start
    /\ \A i \in 1..Len(stack) :
          stack[i].length_type = BIT_COUNT /\ stack[i].pc = "sub_packets" =>
              /\ stack[i].sub_bits_read = SumSpans(stack[i].sub_spans)
              /\ Len(stack[i].sub_spans) = Len(stack[i].sub_packets)
              /\ \A j \in 1..Len(stack[i].sub_packets) :
                    SubPacketBits(stack[i].sub_packets[j]) = SpanBits(stack[i].sub_spans[j])

\* C26 witness: a bit-count loop has added the bits of a sub-packet that has
\* sub-packets of its own.
C26_Witness ==
    /\ Running
    /\ Top.pc = "sub_packets"
    /\ Top.length_type = BIT_COUNT
    /\ Top.sub_packets # <<>>
    /\ Top.sub_packets[1].sub_packets # <<>>
    /\ Top.sub_bits_read > Top.sub_packets[1].length

\* The length C27 gives for a packet returned by a parser in frame f.
OwnLength(f) ==
    IF f.type = LITERAL THEN 6 + 5 * (Len(f.nibbles) \div NIBBLE_LEN)
    ELSE IF f.length_type = BIT_COUNT THEN 22
    ELSE 18

\* Lengths possible for a packet of its type: 22 or 18 for an operator, 6 + 5k
\* with k >= 1 for a literal.
RECURSIVE OwnLengths(_)
OwnLengths(p) ==
    /\ IF is_operator(p.type) THEN p.length \in {22, 18}
       ELSE p.length >= 11 /\ (p.length - 6) % 5 = 0
    /\ \A i \in 1..Len(p.sub_packets) : OwnLengths(p.sub_packets[i])

\* C27: the length of a packet counts its own fields only: 22 for an operator in
\* bit-count framing, 18 in sub-count framing, 6 + 5k for a literal of k groups,
\* whatever its sub-packets, at every depth (every parser starts its counter at 0).
C27_OwnLength ==
    /\ \A i \in 1..Len(stack) :
          i = Len(stack) =>
              stack[i].bits_read = (pos - stack[i].start) - SumSpans(stack[i].sub_spans)
    /\ Returned =>
          /\ LastPacket.length = OwnLength(LastFrame)
          /\ OwnLengths(LastPacket)

\* C27 witness: an operator in sub-count framing below the root returned with
\* sub-packets and length 18.
C27_Witness ==
    /\ LastIsOperator
    /\ last[1].depth > 1
    /\ LastFrame.length_type = SUB_COUNT
    /\ LastPacket.sub_packets # <<>>
    /\ LastPacket.length = 18

\* C28: an operator whose count field is 0, in either framing, parses without
\* any error: its loop is not entered, no framing error is raised, and it
\* returns a packet with no sub-packets and no value.
C28_ZeroCountParses ==
    /\ [](( /\ LastIsOperator
            /\ IF LastFrame.length_type = BIT_COUNT THEN LastFrame.bit_count = 0
               ELSE LastFrame.sub_count = 0)
          => /\ LastPacket.sub_packets = <<>>
             /\ LastPacket.value = None
             /\ last[1].stop - LastFrame.start = LastPacket.length)
    /\ [][ ( /\ Running
             /\ Top.pc = "sub_packets"
             /\ IF Top.length_type = BIT_COUNT THEN Top.bit_count = 0
                ELSE Top.sub_count = 0 )
           => /\ stack' = SetTop([Top EXCEPT !.pc = "return"])
              /\ Top.sub_packets = <<>>
              /\ phase' = "parsing"
              /\ error' = "" ]_vars

\* C28 witness: an operator with bit count 0 was returned to main() with bits
\* left in the source.
C28_Witness ==
    /\ phase = "parsed"
    /\ is_operator(Root.type)
    /\ LastFrame.length_type = BIT_COUNT
    /\ LastFrame.bit_count = 0
    /\ last[1].depth = 1
    /\ Root.sub_packets = <<>>
    /\ pos < Len(bits)

\* C29: a read of n bits that fails found m < n bits left; it leaves the
\* parser's counter as it was, and the source exhausted, the m bits drawn and
\* lost.
C29_FailedReadDrains ==
    [][ (lastRead' # lastRead /\ ~lastRead'[1].ok) =>
           /\ Len(bits) - pos < lastRead'[1].n
           /\ lastRead'[1].bits_read = Top.bits_read
           /\ pos' = Len(bits)
           /\ pos' - pos = Len(bits) - lastRead'[1].before ]_vars

\* C29 witness: a read failed after drawing at least one bit.
C29_Witness ==
    /\ lastRead # None
    /\ ~lastRead[1].ok
    /\ lastRead[1].before < Len(bits)
    /\ pos = Len(bits)
    /\ lastRead[1].bits_read = lastRead[1].bits_read_before

-----------------------------------------------------------------------------
(* Consumers: the version sum and the evaluation, run by several threads on *)
(* one parsed tree.  A thread runs the two statements of main() that use    *)
(* the tree, in any order and any number of times up to MaxRuns; a step is  *)
(* one packet drawn from descendants(), the construction of the Expression, *)
(* or its evaluation.  The traversal keeps the path of each packet it has   *)
(* still to visit and reads the packet from the shared tree when it gets    *)
(* there.                                                                   *)

Threads == {"t1", "t2"}
MaxRuns == 2

\* The packet at a path of sub-packet indexes below p.
RECURSIVE NodeAt(_, _)
NodeAt(p, path) ==
    IF path = <<>> THEN p ELSE NodeAt(p.sub_packets[Head(path)], Tail(path))

\* A thread that is in neither statement; `results` is the history of what its
\* statements gave.
Idle == [pc |-> "idle", todo |-> <<>>, acc |-> 0, expr |-> None, results |-> <<>>]

\* StartedSum as it would be if the total were kept from one run to the next.
StartedSumCarrying(th) == [th EXCEPT !.pc = "sum", !.todo = << <<>> >>]

\* sum(... for p in packet.descendants()): a total of 0 and a generator at the root.
StartedSum(th) == [th EXCEPT !.pc = "sum", !.todo = << <<>> >>, !.acc = 0]

Runs(t) == Len(threads[t].results)

StartSum(t) ==
    /\ threads[t].pc = "idle"
    /\ Runs(t) < MaxRuns
    /\ threads' = [threads EXCEPT ![t] = StartedSum(@)]
    /\ UNCHANGED <<parser, queue>>

\* descendants() yields the next packet, whose version is added: the packet
\* itself, then each of its sub-packets with its descendants, in order.
Visit(t) ==
    /\ threads[t].pc = "sum"
    /\ threads[t].todo # <<>>
    /\ LET path == Head(threads[t].todo)
           p == NodeAt(packet[1], path)
       IN  threads' = [threads EXCEPT
                ![t].acc = @ + p.version,
                ![t].todo = [i \in 1..Len(p.sub_packets) |-> Append(path, i)] \o Tail(@)]
    /\ UNCHANGED <<parser, queue>>

\* The generator is exhausted: sum() returns.
FinishSum(t) ==
    /\ threads[t].pc = "sum"
    /\ threads[t].todo = <<>>
    /\ threads' = [threads EXCEPT
            ![t].pc = "idle",
            ![t].results = Append(@, [kind |-> "sum", value |-> Value(IntValue(threads[t].acc))])]
    /\ UNCHANGED <<parser, queue>>

\* expr = Expression.from_packet(packet)
FromPacket(t) ==
    /\ threads[t].pc = "idle"
    /\ Runs(t) < MaxRuns
    /\ LET e == from_packet(packet[1]) IN
       threads' = [threads EXCEPT ![t] =
            IF e.ok THEN [@ EXCEPT !.pc = "built", !.expr = e.expr]
            ELSE [@ EXCEPT !.results = Append(@, [kind |-> "eval", value |-> Failure(e.err)])]]
    /\ UNCHANGED <<parser, queue>>

\* expr.eval()
EvalExpression(t) ==
    /\ threads[t].pc = "built"
    /\ threads' = [threads EXCEPT
            ![t].pc = "idle",
            ![t].expr = None,
            ![t].results = Append(@, [kind |-> "eval", value |-> eval(threads[t].expr[1])])]
    /\ UNCHANGED <<parser, queue>>

\* The trees the threads work on: a literal, operators over literals, an
\* operator over an operator, and comparisons and a minimum that do not evaluate.
Trees ==
    { Lit(6, 2021, 3),
      Op(1, "SUM", BIT_COUNT, <<Lit(6, 10, 1), Lit(2, 20, 2)>>),
      Op(7, "PRODUCT", SUB_COUNT,
         <<Op(3, "MAXIMUM", SUB_COUNT, <<Lit(0, 7, 1), Lit(1, 3, 1)>>), Lit(5, 20, 2)>>),
      Op(4, "LT", SUB_COUNT, <<Lit(1, 3, 1), Lit(5, 20, 2)>>),
      Op(4, "GT", BIT_COUNT, <<Lit(1, 3, 1)>>),
      Op(4, "MINIMUM", SUB_COUNT, <<>>) }

\* main() has parsed a tree; the threads have not started.
InitConsumers ==
    /\ packet \in { Some(p) : p \in Trees }
    /\ bits = Encode(packet[1])
    /\ pos = Len(bits)
    /\ stack = <<>>
    /\ phase = "parsed"
    /\ error = ""
    /\ printed = <<>>
    /\ lastRead = None
    /\ last = None
    /\ threads = [t \in Threads |-> Idle]
    /\ heap = <<>>
    /\ elements = <<>>
    /\ queued = <<>>
    /\ popped = None

NextConsumers ==
    \E t \in Threads :
        \/ StartSum(t)
        \/ Visit(t)
        \/ FinishSum(t)
        \/ FromPacket(t)
        \/ EvalExpression(t)

Consumers == InitConsumers /\ [][NextConsumers]_vars

\* Every result any thread has got so far.
Results == UNION { Range(threads[t].results) : t \in Threads }

\* C22: the version sum and the evaluation only read the tree: however the
\* threads' runs are ordered and interleaved, no step changes a field of a packet,
\* every version sum is the total of the tree's versions, and every evaluation
\* gives the same value (or the same exception) as every other.
C22_ConsumersReadOnly ==
    /\ [][packet' = packet]_vars
    /\ [](\A r \in Results :
            /\ r.kind = "sum" => r.value = Value(IntValue(TotalVersion(Root)))
            /\ (r.kind = "eval" /\ r.value.ok) =>
                  (Evaluate(Root) # None /\ r.value.val[1].v = Evaluate(Root)[1])
            /\ \A q \in Results : q.kind = r.kind => q.value = r.value)

\* C22 witness: one thread has run both statements on a tree of three levels
\* while the other is in the middle of its second version sum.
C22_Witness ==
    /\ \E i \in 1..Len(Root.sub_packets) : Root.sub_packets[i].sub_packets # <<>>
    /\ {r.kind : r \in Range(threads["t1"].results)} = {"sum", "eval"}
    /\ threads["t2"].pc = "sum"
    /\ threads["t2"].acc > 0
    /\ Len(threads["t2"].todo) > 1
    /\ Runs("t2") = 1

-----------------------------------------------------------------------------
(* Queue: PriorityQueue of aoc/day15.py.  A _QElem is a record; `id` stands *)
(* for the identity of the object, which `update` needs to reach the very   *)
(* element that is in the heap, and takes no part in comparisons.  The heap *)
(* is the list heapq keeps, position 1 here being index 0 there.            *)

MaxItems == 2
MaxPriority == 1
MaxHeap == 3

Items == 1..MaxItems
Priorities == 0..MaxPriority

ValueError == "ValueError: Popping from empty queue"
KeyError == "KeyError"

\* _QElem(priority, valid, item)
QElem(priority, valid, item, id) ==
    [priority |-> priority, valid |-> valid, item |-> item, id |-> id]

\* a < b for _QElem, a dataclass with order=True: the tuples (priority, valid,
\* item) are compared, and False < True.
Less(a, b) ==
    \/ a.priority < b.priority
    \/ /\ a.priority = b.priority
       /\ \/ ~a.valid /\ b.valid
          \/ a.valid = b.valid /\ a.item < b.item

\* heapq._siftdown: newitem moves from pos towards startpos past every parent
\* it is less than.
RECURSIVE siftdown(_, _, _, _)
siftdown(h, startpos, p, newitem) ==
    IF p > startpos /\ Less(newitem, h[p \div 2])
    THEN siftdown([h EXCEPT ![p] = h[p \div 2]], startpos, p \div 2, newitem)
    ELSE [h EXCEPT ![p] = newitem]

\* heapq._siftup: the smaller child moves up from the leaves' side until a leaf
\* is free, where newitem is put and sifted down.
RECURSIVE siftup(_, _, _, _)
siftup(h, startpos, p, newitem) ==
    LET childpos == 2 * p
        rightpos == childpos + 1
        smaller == IF rightpos <= Len(h) /\ ~Less(h[childpos], h[rightpos])
                   THEN rightpos ELSE childpos
    IN  IF childpos <= Len(h)
        THEN siftup([h EXCEPT ![p] = h[smaller]], startpos, smaller, newitem)
        ELSE siftdown([h EXCEPT ![p] = newitem], startpos, p, newitem)

\* heapq.heappush(heap, elem)
heappush(h, elem) == siftdown(Append(h, elem), 1, Len(h) + 1, elem)

\* heapq.heappop(heap), for a heap that is not empty: the element returned and
\* the heap left.
heappop(h) ==
    LET lastelt == h[Len(h)]
        rest == SubSeq(h, 1, Len(h) - 1)
    IN  IF rest # <<>>
        THEN [elem |-> rest[1], heap |-> siftup([rest EXCEPT ![1] = lastelt], 1, 1, lastelt)]
        ELSE [elem |-> lastelt, heap |-> <<>>]

\* An identity no live element has.
FreshId(h) == CHOOSE n \in 1..(Len(h) + 1) : \A i \in 1..Len(h) : h[i].id # n

\* dict[item] = v, and del dict[item]
Put(dict, item, v) ==
    [x \in DOMAIN dict \cup {item} |-> IF x = item THEN v ELSE dict[x]]
Del(dict, item) == [x \in DOMAIN dict \ {item} |-> dict[x]]

\* Invalidated as it would be if update left the old element valid.
StillValid(h, id) == h

\* elem.valid = False, for the element of that identity, where it lies in the heap.
Invalidated(h, id) ==
    [i \in 1..Len(h) |-> IF h[i].id = id THEN [h[i] EXCEPT !.valid = FALSE] ELSE h[i]]

\* PriorityQueue.add on a queue q = [heap, elements]
add(q, item, priority) ==
    LET elem == QElem(priority, TRUE, item, FreshId(q.heap)) IN
    [heap |-> heappush(q.heap, elem), elements |-> Put(q.elements, item, elem.id)]

\* PriorityQueue.update
update(q, item, priority) ==
    IF item \in DOMAIN q.elements
    THEN add([q EXCEPT !.heap = Invalidated(q.heap, q.elements[item])], item, priority)
    ELSE add(q, item, priority)

\* The loop of PriorityQueue.pop: elements are popped until one is valid or
\* the heap is empty.
RECURSIVE PopLoop(_)
PopLoop(h) ==
    IF h = <<>> THEN [found |-> FALSE, elem |-> None, heap |-> h]
    ELSE LET r == heappop(h) IN
         IF r.elem.valid THEN [found |-> TRUE, elem |-> Some(r.elem), heap |-> r.heap]
         ELSE PopLoop(r.heap)

\* PriorityQueue.__init__: the items are added in the order the iterable gives them.
RECURSIVE PriorityQueue(_, _)
PriorityQueue(items, priority) ==
    IF items = <<>> THEN [heap |-> <<>>, elements |-> <<>>]
    ELSE add(PriorityQueue(SubSeq(items, 1, Len(items) - 1), priority),
             items[Len(items)], priority)

Add(item, priority) ==
    /\ item \notin DOMAIN queued
    /\ Len(heap) < MaxHeap
    /\ LET q == add([heap |-> heap, elements |-> elements], item, priority) IN
       /\ heap' = q.heap
       /\ elements' = q.elements
    /\ queued' = Put(queued, item, priority)
    /\ UNCHANGED <<popped, parser, consumers>>

Update(item, priority) ==
    /\ Len(heap) < MaxHeap
    /\ LET q == update([heap |-> heap, elements |-> elements], item, priority) IN
       /\ heap' = q.heap
       /\ elements' = q.elements
    /\ queued' = Put(queued, item, priority)
    /\ UNCHANGED <<popped, parser, consumers>>

Pop ==
    /\ LET r == PopLoop(heap) IN
       /\ heap' = r.heap
       /\ IF ~r.found
          THEN /\ popped' = Some([ok |-> FALSE, error |-> ValueError, item |-> 0,
                                  priority |-> 0])
               /\ UNCHANGED <<elements, queued>>
          ELSE IF r.elem[1].item \notin DOMAIN elements
          THEN /\ popped' = Some([ok |-> FALSE, error |-> KeyError, item |-> r.elem[1].item,
                                  priority |-> r.elem[1].priority])
               /\ UNCHANGED <<elements, queued>>
          ELSE /\ popped' = Some([ok |-> TRUE, error |-> "", item |-> r.elem[1].item,
                                  priority |-> r.elem[1].priority])
               /\ elements' = Del(elements, r.elem[1].item)
               /\ queued' = Del(queued, r.elem[1].item)
    /\ UNCHANGED <<parser, consumers>>

\* The sequences of distinct items.
Distinct(S) == { s \in SeqsUpTo(S, Cardinality(S)) : \A i, j \in 1..Len(s) : s[i] = s[j] => i = j }

\* A queue as its constructor leaves it, for any items in any order at any priority.
InitQueue ==
    /\ \E items \in Distinct(Items), priority \in Priorities :
          LET q == PriorityQueue(items, priority) IN
          /\ heap = q.heap
          /\ elements = q.elements
          /\ queued = [x \in Range(items) |-> priority]
    /\ popped = None
    /\ threads = <<>>
    /\ bits = <<>>
    /\ pos = 0
    /\ stack = <<>>
    /\ phase = "done"
    /\ packet = None
    /\ error = ""
    /\ printed = <<>>
    /\ lastRead = None
    /\ last = None

NextQueue ==
    \/ \E item \in Items, priority \in Priorities : Add(item, priority)
    \/ \E item \in Items, priority \in Priorities : Update(item, priority)
    \/ Pop

Queue == InitQueue /\ [][NextQueue]_vars

\* The heap holds, for each queued item, exactly one valid element, which has
\* the priority last given to the item and is the one `elements` names.
OneValidEach ==
    /\ DOMAIN elements = DOMAIN queued
    /\ \A i \in 1..Len(heap) :
          heap[i].valid =>
              /\ heap[i].item \in DOMAIN queued
              /\ heap[i].priority = queued[heap[i].item]
              /\ elements[heap[i].item] = heap[i].id
    /\ \A x \in DOMAIN queued :
          Cardinality({ i \in 1..Len(heap) : heap[i].valid /\ heap[i].item = x }) = 1

\* C30: after any adds of new items, updates and pops, a pop returns an item
\* that was queued, with the priority last given to it, which no queued item's
\* last priority is below; the item is then no longer queued, so it is returned
\* at most once for each add or update; and a pop raises ValueError exactly when
\* nothing is queued.
C30_PopReturnsMinimum ==
    /\ []OneValidEach
    /\ [][ popped' # popped =>
              LET p == popped'[1] IN
              /\ p.ok <=> DOMAIN queued # {}
              /\ p.ok =>
                    /\ p.item \in DOMAIN queued
                    /\ p.priority = queued[p.item]
                    /\ \A x \in DOMAIN queued : queued[p.item] <= queued[x]
                    /\ queued' = Del(queued, p.item)
                    /\ \A i \in 1..Len(heap') : heap'[i].valid => heap'[i].item # p.item
              /\ ~p.ok => (p.error = ValueError /\ heap' = <<>>) ]_vars

\* The order heapq relies on does not hold between an element of the heap and
\* its parent.
HeapOrderBroken == \E i \in 2..Len(heap) : Less(heap[i], heap[i \div 2])

\* C30 witness: a pop has returned an item of lower priority than one still
\* queued, and in the heap an update has flipped the flag of an element and left
\* it below a greater parent.
C30_Witness ==
    /\ popped # None
    /\ popped[1].ok
    /\ \E x \in DOMAIN queued : queued[x] > popped[1].priority
    /\ HeapOrderBroken
    /\ \E i \in 1..Len(heap) : ~heap[i].valid

====
